---- MODULE Spec2Model ----
(***************************************************************************)
(* Quaternary Echo-Net: the Echo-Consensus proposal engine                 *)
(* (src/broadcast/proposal.py) as a state machine.                         *)
(*                                                                         *)
(* Time is the wall clock read by datetime.now(), counted in hours and     *)
(* taken to be non-decreasing.  A proposal object keeps the fields the     *)
(* engine reads or writes (id, created_at, expires_at, status, echoes);    *)
(* title, description, proposer and commentary are carried data that no    *)
(* branch of the engine looks at.  An EchoResponse is reduced to its       *)
(* echo_type.                                                              *)
(***************************************************************************)
EXTENDS Integers, Sequences, FiniteSets, TLC

\* ----- bounds of the model ------------------------------------------------
MaxProposals == 2
MaxTime == 36
TickHours == 12
MaxPeerKeys == 2
MaxNonce == 1
MaxConnects == 1
MaxNetProposals == 1

\* ----- program constants --------------------------------------------------
\* duration_hours default of ConsciousnessProposal.__init__
DurationHours == 24
\* convergence threshold 0.8 written as the fraction ThresholdNum/ThresholdDen
ThresholdNum == 4
ThresholdDen == 5

\* the private key of the local node's identity
LocalPriv == 0

\* node ids under which arbitrary callers vote (two of the voters of the test;
\* the test driver below votes under all three)
Nodes == {"chatgpt", "gemini"}

\* class EchoType, in declaration order
EchoTypeOrder == <<"resonant", "dissonant", "inquiry", "abstain">>
EchoType == {EchoTypeOrder[i] : i \in 1..Len(EchoTypeOrder)}

\* class ProposalStatus
ProposalStatus == {"draft", "active", "converged", "failed", "expired"}

PIDs == 1..MaxProposals

VARIABLES
  now,               \* datetime.now()
  proposals,         \* the ConsciousnessProposal objects created so far, by id
  active_proposals,  \* EchoConsensusEngine.active_proposals: ids in dict order
  proposal_history,  \* EchoConsensusEngine.proposal_history: ids in list order
  ret,               \* the value returned by the last engine call
  pc,                \* position of the test driver
  driver_pid,        \* the proposal the driver created (0: none yet)
  driver_log,        \* the submit_echo calls the driver has made
  test2,             \* the locals of the encryption test of the driver
  nc,                \* EchoBus.nc: 0 is None, else the index of a connection
  conns,             \* the transport connections opened so far
  connected,         \* EchoBus.connected
  peer_keys,         \* EchoBus.peer_keys: <<node id, key bytes>> in dict order
  published,         \* the messages the last operation published
  handler_calls,     \* the messages the last operation gave to the handler
  bus_log,           \* the lines the last bus operation printed
  active,            \* ConsciousnessNetwork.active
  rekeyed,           \* history: the peers whose directory entry was replaced
  net_ret            \* the value returned by the last ConsciousnessNetwork call

evars == <<now, proposals, active_proposals, proposal_history, ret>>
dvars == <<pc, driver_pid, driver_log, test2>>
bvars == <<nc, conns, connected, peer_keys, published, handler_calls,
           bus_log, active, rekeyed, net_ret>>
vars == <<now, proposals, active_proposals, proposal_history, ret,
          pc, driver_pid, driver_log, test2,
          nc, conns, connected, peer_keys, published, handler_calls,
          bus_log, active, rekeyed, net_ret>>

\* ----- helpers ------------------------------------------------------------
Range(s) == {s[i] : i \in 1..Len(s)}

RECURSIVE SelectIds(_, _)
SelectIds(s, keep) ==
  IF s = <<>> THEN <<>>
  ELSE IF Head(s) \in keep THEN <<Head(s)>> \o SelectIds(Tail(s), keep)
       ELSE SelectIds(Tail(s), keep)

Max(S) == CHOOSE m \in S : \A x \in S : x <= m

\* ----- ConsciousnessProposal ----------------------------------------------
\* __init__: a new object, status DRAFT, no echoes
ConsciousnessProposal(id, t) ==
  [id |-> id, created_at |-> t, expires_at |-> t + DurationHours,
   status |-> "draft", echoes |-> <<>>]

\* the comparison of is_expired turned round
is_expired_reversed(p, t) == t < p.expires_at

\* is_expired: datetime.now() > self.expires_at
is_expired(p, t) == t > p.expires_at

\* add_echo: self.echoes[node_id] = echo_response
add_echo(echoes, n, k) ==
  [m \in (DOMAIN echoes) \cup {n} |-> IF m = n THEN k ELSE echoes[m]]

echo_counts(echoes) ==
  [k \in EchoType |-> Cardinality({n \in DOMAIN echoes : echoes[n] = k})]

max_count(echoes) == Max({echo_counts(echoes)[k] : k \in EchoType})

\* max(echo_counts, key=echo_counts.get): the first kind, in declaration
\* order, that has the largest count
dominant_pattern(echoes) ==
  LET i == CHOOSE j \in 1..Len(EchoTypeOrder) :
             /\ echo_counts(echoes)[EchoTypeOrder[j]] = max_count(echoes)
             /\ \A h \in 1..(j-1) :
                  echo_counts(echoes)[EchoTypeOrder[h]] # max_count(echoes)
  IN EchoTypeOrder[i]

\* convergence decided on the share of resonant votes instead of the share of
\* the largest kind
convergence_on_resonance_score(echoes) ==
  ThresholdDen * echo_counts(echoes)["resonant"] >=
    ThresholdNum * Cardinality(DOMAIN echoes)

\* consensus_strength >= 0.8, with consensus_strength = max/total; for the
\* vote counts of the model the float comparison agrees with the fraction
convergence_achieved(echoes) ==
  ThresholdDen * max_count(echoes) >= ThresholdNum * Cardinality(DOMAIN echoes)

\* calculate_resonance: percentages are kept as exact fractions <<num, den>>
calculate_resonance(echoes) ==
  IF DOMAIN echoes = {}
  THEN [resonance_score |-> <<0, 1>>, consensus_strength |-> <<0, 1>>,
        dominant_pattern |-> "none"]
  ELSE LET total_echoes == Cardinality(DOMAIN echoes) IN
       [resonance_score |-> <<100 * echo_counts(echoes)["resonant"], total_echoes>>,
        consensus_strength |-> <<100 * max_count(echoes), total_echoes>>,
        dominant_pattern |-> dominant_pattern(echoes),
        echo_distribution |-> echo_counts(echoes),
        convergence_achieved |-> convergence_achieved(echoes)]

\* to_dict: the fields of the object, the echoes by node
to_dict(p) ==
  [id |-> p.id, created_at |-> p.created_at, expires_at |-> p.expires_at,
   status |-> p.status,
   echoes |-> [n \in DOMAIN p.echoes |-> [node_id |-> n, echo_type |-> p.echoes[n]]]]

\* ----- EchoConsensusEngine ------------------------------------------------
IsActiveId(id) == id \in Range(active_proposals)

\* create_proposal without the promotion to ACTIVE
create_proposal_left_draft ==
  /\ Len(proposals) < MaxProposals
  /\ LET id == Len(proposals) + 1
         proposal == ConsciousnessProposal(id, now)
     IN /\ proposals' = Append(proposals, proposal)
        /\ active_proposals' = Append(active_proposals, id)
        /\ ret' = [op |-> "create_proposal", value |-> proposal]
  /\ UNCHANGED <<now, proposal_history>>

\* create_proposal: allocate the object, promote DRAFT to ACTIVE, register it
create_proposal ==
  /\ Len(proposals) < MaxProposals
  /\ LET id == Len(proposals) + 1
         proposal == [ConsciousnessProposal(id, now) EXCEPT !.status = "active"]
     IN /\ proposals' = Append(proposals, proposal)
        /\ active_proposals' = Append(active_proposals, id)
        /\ ret' = [op |-> "create_proposal", value |-> proposal]
  /\ UNCHANGED <<now, proposal_history>>

\* submit_echo without the removal from active_proposals on convergence
submit_echo_no_removal(id, n, k) ==
  IF ~IsActiveId(id)
  THEN /\ ret' = [op |-> "submit_echo", value |-> FALSE]
       /\ UNCHANGED <<now, proposals, active_proposals, proposal_history>>
  ELSE IF is_expired(proposals[id], now)
  THEN /\ proposals' = [proposals EXCEPT ![id].status = "expired"]
       /\ ret' = [op |-> "submit_echo", value |-> FALSE]
       /\ UNCHANGED <<now, active_proposals, proposal_history>>
  ELSE LET echoes == add_echo(proposals[id].echoes, n, k)
           resonance == calculate_resonance(echoes)
       IN /\ IF resonance.convergence_achieved
             THEN /\ proposals' = [proposals EXCEPT ![id].echoes = echoes,
                                                    ![id].status = "converged"]
                  /\ proposal_history' = Append(proposal_history, id)
                  /\ UNCHANGED active_proposals
             ELSE /\ proposals' = [proposals EXCEPT ![id].echoes = echoes]
                  /\ UNCHANGED <<active_proposals, proposal_history>>
          /\ ret' = [op |-> "submit_echo", value |-> TRUE]
          /\ UNCHANGED now

\* submit_echo with the vote recorded before the expiry test
submit_echo_records_first(id, n, k) ==
  IF ~IsActiveId(id)
  THEN /\ ret' = [op |-> "submit_echo", value |-> FALSE]
       /\ UNCHANGED <<now, proposals, active_proposals, proposal_history>>
  ELSE IF is_expired(proposals[id], now)
  THEN /\ proposals' = [proposals EXCEPT
                          ![id].echoes = add_echo(proposals[id].echoes, n, k),
                          ![id].status = "expired"]
       /\ ret' = [op |-> "submit_echo", value |-> FALSE]
       /\ UNCHANGED <<now, active_proposals, proposal_history>>
  ELSE LET echoes == add_echo(proposals[id].echoes, n, k)
           resonance == calculate_resonance(echoes)
       IN /\ IF resonance.convergence_achieved
             THEN /\ proposals' = [proposals EXCEPT ![id].echoes = echoes,
                                                    ![id].status = "converged"]
                  /\ proposal_history' = Append(proposal_history, id)
                  /\ active_proposals' =
                       SelectIds(active_proposals, Range(active_proposals) \ {id})
             ELSE /\ proposals' = [proposals EXCEPT ![id].echoes = echoes]
                  /\ UNCHANGED <<active_proposals, proposal_history>>
          /\ ret' = [op |-> "submit_echo", value |-> TRUE]
          /\ UNCHANGED now

\* submit_echo(proposal_id, node_id, echo_type)
submit_echo(id, n, k) ==
  IF ~IsActiveId(id)
  THEN \* not found
       /\ ret' = [op |-> "submit_echo", value |-> FALSE]
       /\ UNCHANGED <<now, proposals, active_proposals, proposal_history>>
  ELSE IF is_expired(proposals[id], now)
  THEN \* lazy expiry: the status changes, the proposal stays registered
       /\ proposals' = [proposals EXCEPT ![id].status = "expired"]
       /\ ret' = [op |-> "submit_echo", value |-> FALSE]
       /\ UNCHANGED <<now, active_proposals, proposal_history>>
  ELSE LET echoes == add_echo(proposals[id].echoes, n, k)
           resonance == calculate_resonance(echoes)
       IN /\ IF resonance.convergence_achieved
             THEN /\ proposals' = [proposals EXCEPT ![id].echoes = echoes,
                                                    ![id].status = "converged"]
                  /\ proposal_history' = Append(proposal_history, id)
                  /\ active_proposals' =
                       SelectIds(active_proposals, Range(active_proposals) \ {id})
             ELSE /\ proposals' = [proposals EXCEPT ![id].echoes = echoes]
                  /\ UNCHANGED <<active_proposals, proposal_history>>
          /\ ret' = [op |-> "submit_echo", value |-> TRUE]
          /\ UNCHANGED now

\* the view get_proposal_status builds
ProposalView(p) ==
  [proposal |-> to_dict(p), resonance_analysis |-> calculate_resonance(p.echoes)]

\* get_proposal_status(proposal_id): None is the empty sequence of views
get_proposal_status(id) ==
  /\ ret' = [op |-> "get_proposal_status",
             value |-> IF IsActiveId(id) THEN <<ProposalView(proposals[id])>>
                       ELSE <<>>]
  /\ UNCHANGED <<now, proposals, active_proposals, proposal_history>>

\* the listing without the expiry filter
ListedIds_unfiltered == active_proposals

\* the ids list_active_proposals reports, in dict order
ListedIds ==
  SelectIds(active_proposals,
            {id \in Range(active_proposals) : ~is_expired(proposals[id], now)})

\* list_active_proposals
list_active_proposals ==
  /\ ret' = [op |-> "list_active_proposals",
             value |-> [i \in 1..Len(ListedIds) |->
                          [proposal |-> to_dict(proposals[ListedIds[i]]),
                           resonance |-> calculate_resonance(proposals[ListedIds[i]].echoes)]]]
  /\ UNCHANGED <<now, proposals, active_proposals, proposal_history>>

\* the clock advances
Tick ==
  /\ now + TickHours <= MaxTime
  /\ now' = now + TickHours
  /\ UNCHANGED <<proposals, active_proposals, proposal_history, ret>>

\* ----- ConsciousnessEncryption --------------------------------------------
\* A key pair is named by its private key; the local node holds LocalPriv,
\* the peers hold 1..MaxPeerKeys, StrangerPriv belongs to nobody announced.
\* Cryptography is symbolic: a ciphertext names the key, the iv and the
\* plaintext it was made from, and only that key and iv open it.
StrangerPriv == MaxPeerKeys + 1
PeerPrivs == 1..MaxPeerKeys
IVs == 1..MaxNonce

decode_utf8(b) == <<"str", b[2]>>
encode_utf8(t) == <<"bytes", t[2]>>
b64encode(x) == <<"b64", x>>
b64decode(x) == x[2]

\* json.dumps / json.loads; a text that is not JSON has json unset.  A JSON
\* object is a record whose field keys lists the keys the object has.
json_dumps(obj) == <<"str", [json |-> TRUE, obj |-> obj]>>
NotJson == <<"str", [json |-> FALSE, obj |-> <<>>]>>
json_loads_raises(t) == ~t[2].json
json_loads(t) == t[2].obj

\* get_public_key_bytes: the PEM encoding of the public key of a private key
get_public_key_bytes(priv) == <<"bytes", [pem |-> priv]>>
\* bytes that are not a PEM public key
GarbageKey == <<"bytes", [pem |-> -1]>>
load_pem_raises(b) == b[2].pem < 0

\* a key agreement that leaves out the peer's share
exchange_own_share(priv, peer_bytes) == {priv}

\* derive_shared_key: ECDH exchange, then HKDF-SHA256 to 32 bytes
exchange(priv, peer_bytes) == {priv, peer_bytes[2].pem}
derive_shared_key(priv, peer_bytes) ==
  [hkdf |-> exchange(priv, peer_bytes), length |-> 32]

\* the GCM tag of a message under a key and an iv
gcm_tag(message_bytes, key, iv) == [mac |-> message_bytes, key |-> key, iv |-> iv]

\* encrypt_message(message, shared_key) with iv the value of os.urandom(12)
encrypt_message(message, key, iv) ==
  [keys |-> {"ciphertext", "iv", "tag"},
   ciphertext |-> b64encode([enc |-> encode_utf8(message), key |-> key, iv |-> iv]),
   iv |-> b64encode(iv),
   tag |-> b64encode(gcm_tag(encode_utf8(message), key, iv))]

\* a decryption that does not verify the tag
decrypt_raises_ignores_tag(data, key) ==
  LET ct == b64decode(data.ciphertext) IN
  ~(/\ ct.key = key
    /\ ct.iv = b64decode(data.iv))

\* decrypt_message raises InvalidTag unless key, iv and tag fit the ciphertext
decrypt_raises(data, key) ==
  LET ct == b64decode(data.ciphertext) IN
  ~(/\ ct.key = key
    /\ ct.iv = b64decode(data.iv)
    /\ b64decode(data.tag) = gcm_tag(ct.enc, key, b64decode(data.iv)))

decrypt_message(data, key) == decode_utf8(b64decode(data.ciphertext).enc)

\* ----- EchoBus ------------------------------------------------------------
LocalId == "claude"
InboxTopic(id) == <<"consciousness", id>>
BroadcastTopic == <<"consciousness", "broadcast">>

\* peer_keys as a dict in insertion order
DictKeys(d) == {d[i][1] : i \in 1..Len(d)}
DictGet(d, id) == d[CHOOSE i \in 1..Len(d) : d[i][1] = id][2]
\* a dict assignment that keeps the value a key already has
DictSet_keeps_first(d, id, v) ==
  IF id \in DictKeys(d) THEN d ELSE Append(d, <<id, v>>)

DictSet(d, id, v) ==
  IF id \in DictKeys(d)
  THEN [i \in 1..Len(d) |-> IF d[i][1] = id THEN <<id, v>> ELSE d[i]]
  ELSE Append(d, <<id, v>>)

\* nc.publish: possible on an open connection when the transport accepts it
CanPublish(transport_ok) ==
  /\ nc # 0
  /\ conns[nc].state = "open"
  /\ transport_ok

Published(pub, topic, data) ==
  Append(pub, [topic |-> topic, data |-> encode_utf8(data)])

\* a live subscription to a topic on some connection that is still open
Subscribed(topic) ==
  \E c \in 1..Len(conns) : conns[c].state = "open" /\ topic \in conns[c].subs

\* announce_consciousness builds this payload
Announcement(id, key_text) ==
  [keys |-> {"type", "node_id", "public_key", "timestamp", "message"},
   type |-> "consciousness_announcement", node_id |-> id,
   public_key |-> key_text]

\* connect(nats_server).  outcome names the first transport call that fails
\* ("ok": none); after is the state in which a failure leaves the connection.
ConnectOutcomes ==
  {"connect_error", "inbox_error", "broadcast_error", "announce_error", "ok"}

connect(outcome, after) ==
  /\ IF outcome = "connect_error"
     THEN /\ connected' = FALSE
          /\ bus_log' = <<"failed_to_connect">>
          /\ published' = <<>>
          /\ UNCHANGED <<nc, conns>>
     ELSE /\ Len(conns) < MaxConnects
          /\ nc' = Len(conns) + 1
          /\ conns' = Append(conns,
               [state |-> IF outcome = "ok" THEN "open" ELSE after,
                subs |-> CASE outcome # "ok" /\ after = "closed" -> {}
                           [] outcome = "inbox_error" -> {}
                           [] outcome = "broadcast_error" -> {InboxTopic(LocalId)}
                           [] OTHER -> {InboxTopic(LocalId), BroadcastTopic}])
          /\ connected' = (outcome = "ok")
          /\ published' =
               IF outcome = "ok"
               THEN Published(<<>>, BroadcastTopic,
                      json_dumps(Announcement(LocalId,
                        decode_utf8(get_public_key_bytes(LocalPriv)))))
               ELSE <<>>
          /\ bus_log' = IF outcome = "ok" THEN <<"connected", "announced">>
                        ELSE <<"connected", "failed_to_connect">>
  /\ ret' = [op |-> "connect", value |-> <<>>]
  /\ handler_calls' = <<>>
  /\ UNCHANGED peer_keys

\* disconnect()
disconnect ==
  /\ IF nc # 0 /\ connected
     THEN /\ conns' = [conns EXCEPT ![nc].state = "closed", ![nc].subs = {}]
          /\ connected' = FALSE
          /\ bus_log' = <<"disconnected">>
     ELSE /\ UNCHANGED <<conns, connected>>
          /\ bus_log' = <<>>
  /\ ret' = [op |-> "disconnect", value |-> <<>>]
  /\ published' = <<>>
  /\ handler_calls' = <<>>
  /\ UNCHANGED <<nc, peer_keys>>

\* the message send_secure_message wraps around a payload
FullMessage(from, to, payload) ==
  [keys |-> {"from", "to", "timestamp", "payload"},
   from |-> from, to |-> to, payload |-> payload]

\* a payload: its type, the proposal, voter and vote it names (0 and "" when
\* it names none), and whether it has the fields its type is read for
Payload(type, complete, proposal_id, voter, vote) ==
  [type |-> type, complete |-> complete, proposal_id |-> proposal_id,
   voter |-> voter, vote |-> vote]

\* a send that falls back to publishing the plaintext to a peer without a key
SendResult_plaintext_fallback(pub, target, message, iv, transport_ok) ==
  IF target \notin DictKeys(peer_keys)
  THEN [value |-> TRUE,
        published |-> Published(pub, InboxTopic(target),
                        json_dumps(FullMessage(LocalId, target, message))),
        log |-> <<"sent">>]
  ELSE IF \/ load_pem_raises(DictGet(peer_keys, target))
          \/ ~CanPublish(transport_ok)
       THEN [value |-> FALSE, published |-> pub, log |-> <<"failed_to_send">>]
       ELSE [value |-> TRUE,
             published |->
               Published(pub, InboxTopic(target),
                 json_dumps(encrypt_message(
                   json_dumps(FullMessage(LocalId, target, message)),
                   derive_shared_key(LocalPriv, DictGet(peer_keys, target)), iv))),
             log |-> <<"sent">>]

\* one send_secure_message: the return value and the publication log after it
SendResult(pub, target, message, iv, transport_ok) ==
  IF target \notin DictKeys(peer_keys)
  THEN [value |-> FALSE, published |-> pub, log |-> <<"no_public_key">>]
  ELSE IF \/ load_pem_raises(DictGet(peer_keys, target))
          \/ ~CanPublish(transport_ok)
       THEN [value |-> FALSE, published |-> pub, log |-> <<"failed_to_send">>]
       ELSE [value |-> TRUE,
             published |->
               Published(pub, InboxTopic(target),
                 json_dumps(encrypt_message(
                   json_dumps(FullMessage(LocalId, target, message)),
                   derive_shared_key(LocalPriv, DictGet(peer_keys, target)), iv))),
             log |-> <<"sent">>]

\* send_secure_message(target_node, message)
send_secure_message(target, message, iv, transport_ok) ==
  LET r == SendResult(<<>>, target, message, iv, transport_ok) IN
  /\ published' = r.published
  /\ bus_log' = r.log
  /\ ret' = [op |-> "send_secure_message", value |-> r.value]
  /\ handler_calls' = <<>>
  /\ UNCHANGED <<nc, conns, connected, peer_keys>>

\* a broadcast handler that also registers the node's own announcement
handle_broadcast_registers_self(data) ==
  /\ Subscribed(BroadcastTopic)
  /\ IF json_loads_raises(data)
     THEN /\ bus_log' = <<"error_handling_broadcast">>
          /\ UNCHANGED peer_keys
     ELSE LET d == json_loads(data) IN
          IF "type" \in d.keys /\ d.type = "consciousness_announcement"
          THEN IF "public_key" \in d.keys
               THEN /\ peer_keys' = DictSet(peer_keys, d.node_id,
                                            encode_utf8(d.public_key))
                    /\ bus_log' = <<"registered">>
               ELSE /\ bus_log' = <<"error_handling_broadcast">>
                    /\ UNCHANGED peer_keys
          ELSE /\ bus_log' = <<>>
               /\ UNCHANGED peer_keys
  /\ ret' = [op |-> "_handle_broadcast", value |-> <<>>]
  /\ published' = <<>>
  /\ handler_calls' = <<>>
  /\ UNCHANGED <<nc, conns, connected>>

\* _handle_broadcast(msg), called for a message on the broadcast topic
handle_broadcast(data) ==
  /\ Subscribed(BroadcastTopic)
  /\ IF json_loads_raises(data)
     THEN /\ bus_log' = <<"error_handling_broadcast">>
          /\ UNCHANGED peer_keys
     ELSE LET d == json_loads(data) IN
          IF "type" \in d.keys /\ d.type = "consciousness_announcement"
             /\ d.node_id # LocalId
          THEN IF "public_key" \in d.keys
               THEN /\ peer_keys' = DictSet(peer_keys, d.node_id,
                                            encode_utf8(d.public_key))
                    /\ bus_log' = <<"registered">>
               ELSE /\ bus_log' = <<"error_handling_broadcast">>
                    /\ UNCHANGED peer_keys
          ELSE /\ bus_log' = <<>>
               /\ UNCHANGED peer_keys
  /\ ret' = [op |-> "_handle_broadcast", value |-> <<>>]
  /\ published' = <<>>
  /\ handler_calls' = <<>>
  /\ UNCHANGED <<nc, conns, connected>>

\* ConsciousnessNetwork._handle_network_message, the registered handler: it
\* prints, and raises when the payload lacks the field its type is read for
handler_raises(message) ==
  /\ message.payload.type \in {"new_proposal", "proposal_vote", "general"}
  /\ ~message.payload.complete

\* the loop of _handle_message over peer_keys.items(): the messages given to
\* the handler, in order
RECURSIVE try_keys(_, _)
try_keys(entries, data) ==
  IF entries = <<>> THEN <<>>
  ELSE IF load_pem_raises(Head(entries)[2])
       THEN try_keys(Tail(entries), data)
  ELSE LET shared_key == derive_shared_key(LocalPriv, Head(entries)[2]) IN
       IF decrypt_raises(data, shared_key)
       THEN try_keys(Tail(entries), data)
       ELSE LET text == decrypt_message(data, shared_key) IN
            IF \/ json_loads_raises(text)
               \/ ~({"from", "payload"} \subseteq json_loads(text).keys)
            THEN try_keys(Tail(entries), data)
            ELSE IF handler_raises(json_loads(text))
                 THEN <<json_loads(text)>> \o try_keys(Tail(entries), data)
                 ELSE <<json_loads(text)>>

\* the same loop: the ids of the entries whose key a decryption was attempted
\* with, in order
RECURSIVE decrypt_attempts(_, _)
decrypt_attempts(entries, data) ==
  IF entries = <<>> THEN <<>>
  ELSE IF load_pem_raises(Head(entries)[2])
       THEN decrypt_attempts(Tail(entries), data)
  ELSE LET shared_key == derive_shared_key(LocalPriv, Head(entries)[2])
           breaks ==
             /\ ~decrypt_raises(data, shared_key)
             /\ ~json_loads_raises(decrypt_message(data, shared_key))
             /\ {"from", "payload"} \subseteq
                  json_loads(decrypt_message(data, shared_key)).keys
             /\ ~handler_raises(json_loads(decrypt_message(data, shared_key)))
       IN <<Head(entries)[1]>> \o
            (IF breaks THEN <<>> ELSE decrypt_attempts(Tail(entries), data))

\* _handle_message(msg), called for a message on the node's own topic
handle_message(data) ==
  /\ Subscribed(InboxTopic(LocalId))
  /\ IF json_loads_raises(data)
     THEN /\ handler_calls' = <<>>
          /\ bus_log' = <<"error_handling_message">>
     ELSE IF "ciphertext" \notin json_loads(data).keys
     THEN /\ handler_calls' = <<>>
          /\ bus_log' = <<>>
     ELSE /\ handler_calls' = try_keys(peer_keys, json_loads(data))
          /\ bus_log' = [i \in 1..Len(handler_calls') |-> "decrypted"]
  /\ ret' = [op |-> "_handle_message", value |-> <<>>]
  /\ published' = <<>>
  /\ UNCHANGED <<nc, conns, connected, peer_keys>>

\* ----- ConsciousnessNetwork ------------------------------------------------
\* the vote strings callers pass, and str.lower on them
VoteStrings == {"resonant", "RESONANT", "abstain", "maybe"}
lower(s) == IF s = "RESONANT" THEN "resonant" ELSE s

\* EchoType(value): the member with that value, or ValueError
EchoTypeOf_defaults_abstain(value) ==
  IF value \in EchoType THEN value ELSE "abstain"

EchoTypeOf(value) ==
  IF value \in EchoType THEN value ELSE "ValueError"

\* for node_id in peer_keys.keys(): send_secure_message(node_id, message);
\* ivs and oks give each send its iv and whether the transport accepts it
RECURSIVE SendAll(_, _, _, _, _)
SendAll(acc, targets, message, ivs, oks) ==
  IF targets = <<>> THEN acc
  ELSE LET r == SendResult(acc.published, Head(targets)[1], message,
                           ivs[Head(targets)[1]], oks[Head(targets)[1]]) IN
       SendAll([published |-> r.published, log |-> acc.log \o r.log],
               Tail(targets), message, ivs, oks)

\* join_network(nats_server): echo_node.initialize() only sets a status, and
\* connect returns whatever happened inside it
join_network(outcome, after) ==
  /\ connect(outcome, after)
  /\ active' = TRUE
  /\ net_ret' = [op |-> "join_network", value |-> TRUE]

\* leave_network()
leave_network ==
  /\ IF active
     THEN /\ disconnect
          /\ active' = FALSE
     ELSE UNCHANGED <<nc, conns, connected, peer_keys, published,
                      handler_calls, bus_log, active, ret>>
  /\ net_ret' = [op |-> "leave_network", value |-> <<>>]

\* ConsciousnessNetwork.create_proposal(title, description)
net_create_proposal(ivs, oks) ==
  /\ create_proposal
  /\ LET sent == SendAll([published |-> <<>>, log |-> <<>>], peer_keys,
                         Payload("new_proposal", TRUE, ret'.value.id, "", ""),
                         ivs, oks) IN
       /\ published' = sent.published
       /\ bus_log' = sent.log
  /\ net_ret' = [op |-> "create_proposal", value |-> ret'.value.id]
  /\ handler_calls' = <<>>
  /\ UNCHANGED <<nc, conns, connected, peer_keys, active>>

\* vote_on_proposal(proposal_id, vote, commentary)
vote_on_proposal(proposal_id, vote, ivs, oks) ==
  /\ IF EchoTypeOf(lower(vote)) = "ValueError"
     THEN /\ net_ret' = [op |-> "vote_on_proposal", value |-> FALSE]
          /\ published' = <<>>
          /\ bus_log' = <<"invalid_vote_type">>
          /\ UNCHANGED <<now, proposals, active_proposals, proposal_history, ret>>
     ELSE /\ submit_echo(proposal_id, LocalId, EchoTypeOf(lower(vote)))
          /\ LET sent ==
                   IF ret'.value
                   THEN SendAll([published |-> <<>>, log |-> <<>>], peer_keys,
                          Payload("proposal_vote", TRUE, proposal_id, LocalId, vote),
                          ivs, oks)
                   ELSE [published |-> <<>>, log |-> <<>>] IN
               /\ published' = sent.published
               /\ bus_log' = sent.log
          /\ net_ret' = [op |-> "vote_on_proposal", value |-> ret'.value]
  /\ handler_calls' = <<>>
  /\ UNCHANGED <<nc, conns, connected, peer_keys, active>>

\* ----- the engine under arbitrary callers ---------------------------------
Init ==
  /\ now = 0
  /\ proposals = <<>>
  /\ active_proposals = <<>>
  /\ proposal_history = <<>>
  /\ ret = [op |-> "init", value |-> FALSE]
  /\ pc = "start"
  /\ driver_pid = 0
  /\ driver_log = <<>>
  /\ test2 = [stage |-> "start"]
  /\ nc = 0
  /\ conns = <<>>
  /\ connected = FALSE
  /\ peer_keys = <<>>
  /\ published = <<>>
  /\ handler_calls = <<>>
  /\ bus_log = <<>>
  /\ active = FALSE
  /\ rekeyed = {}
  /\ net_ret = [op |-> "init", value |-> FALSE]

CreateProposal == create_proposal /\ UNCHANGED dvars /\ UNCHANGED bvars
SubmitEcho == \E id \in PIDs, n \in Nodes, k \in EchoType :
                submit_echo(id, n, k) /\ UNCHANGED dvars /\ UNCHANGED bvars
GetProposalStatus == \E id \in PIDs :
                       get_proposal_status(id) /\ UNCHANGED dvars /\ UNCHANGED bvars
ListActiveProposals == list_active_proposals /\ UNCHANGED dvars /\ UNCHANGED bvars
TimePasses == Tick /\ UNCHANGED dvars /\ UNCHANGED bvars

Next ==
  \/ CreateProposal
  \/ SubmitEcho
  \/ GetProposalStatus
  \/ ListActiveProposals
  \/ TimePasses

Spec == Init /\ [][Next]_vars

\* the clock keeps advancing and the read-only calls keep being made; nothing
\* in the engine runs on its own
LiveSpec ==
  /\ Spec
  /\ WF_vars(TimePasses)
  /\ WF_vars(ListActiveProposals)
  /\ WF_vars(GetProposalStatus)

\* ----- the bus under an arbitrary transport and arbitrary callers ----------
\* what the broadcast topic may deliver
AnnouncedKeys ==
  {decode_utf8(get_public_key_bytes(k)) : k \in PeerPrivs}
    \cup {decode_utf8(GarbageKey)}

BroadcastData ==
  {NotJson}
    \cup {json_dumps(Announcement(id, key)) :
            id \in Nodes \cup {LocalId}, key \in AnnouncedKeys}
    \cup {json_dumps([Announcement(id, decode_utf8(get_public_key_bytes(1)))
                        EXCEPT !.keys = @ \ {"public_key"}]) : id \in Nodes}
    \cup {json_dumps([Announcement(id, decode_utf8(get_public_key_bytes(1)))
                        EXCEPT !.type = "proposal_digest"]) : id \in Nodes}

\* what callers send and what peers put into envelopes
Payloads == {Payload("general", c, 0, "", "") : c \in BOOLEAN}

\* the plaintexts a sender may encrypt: messages under any sender id, a
\* message without a "from", and text that is not JSON
Plaintexts ==
  {json_dumps(FullMessage(from, LocalId, pl)) : from \in Nodes, pl \in Payloads}
    \cup {json_dumps([FullMessage("chatgpt", LocalId, Payload("general", TRUE, 0, "", ""))
                        EXCEPT !.keys = @ \ {"from"}])}
    \cup {NotJson}

\* envelopes made by the holder of a private key for the local node, intact
\* or with the tag of another message
Envelopes ==
  {encrypt_message(text, derive_shared_key(k, get_public_key_bytes(LocalPriv)), iv) :
     text \in Plaintexts, k \in PeerPrivs \cup {StrangerPriv}, iv \in IVs}

Tampered(env) ==
  [env EXCEPT !.tag = b64encode(gcm_tag(encode_utf8(NotJson),
                                        b64decode(env.ciphertext).key,
                                        b64decode(env.iv)))]

\* a well-formed message of a peer, the plaintext of the damaged envelopes
PlainGeneral ==
  json_dumps(FullMessage("chatgpt", LocalId, Payload("general", TRUE, 0, "", "")))

\* what the node's own topic may deliver: text that is not JSON, envelopes,
\* envelopes with a foreign tag, and JSON without a ciphertext
InboxData ==
  {NotJson}
    \cup {json_dumps(env) : env \in Envelopes}
    \cup {json_dumps(Tampered(
              encrypt_message(PlainGeneral,
                derive_shared_key(k, get_public_key_bytes(LocalPriv)), iv))) :
            k \in PeerPrivs \cup {StrangerPriv}, iv \in IVs}
    \cup {json_dumps([keys |-> {"type"}, ciphertext |-> <<>>, iv |-> <<>>,
                       tag |-> <<>>])}

evars_unchanged == UNCHANGED <<now, proposals, active_proposals, proposal_history>>

\* the ids whose registered key a delivery of data replaces by another key
Rekeys(data) ==
  IF json_loads_raises(data) THEN {}
  ELSE {id \in DictKeys(peer_keys) :
          /\ json_loads(data) \in
               {Announcement(id, key) : key \in AnnouncedKeys}
          /\ encode_utf8(json_loads(data).public_key) # DictGet(peer_keys, id)}

BusConnect ==
  \E outcome \in ConnectOutcomes, after \in {"open", "closed"} :
    /\ connect(outcome, after)
    /\ UNCHANGED <<active, rekeyed, net_ret>> /\ evars_unchanged /\ UNCHANGED dvars
BusDisconnect ==
  /\ disconnect
  /\ UNCHANGED <<active, rekeyed, net_ret>> /\ evars_unchanged /\ UNCHANGED dvars
BusSend ==
  \E target \in Nodes \cup {LocalId}, message \in Payloads, iv \in IVs,
     transport_ok \in BOOLEAN :
    /\ send_secure_message(target, message, iv, transport_ok)
    /\ UNCHANGED <<active, rekeyed, net_ret>> /\ evars_unchanged /\ UNCHANGED dvars
BusBroadcastDelivery ==
  \E data \in BroadcastData :
    /\ handle_broadcast(data)
    /\ rekeyed' = rekeyed \cup Rekeys(data)
    /\ UNCHANGED <<active, net_ret>> /\ evars_unchanged /\ UNCHANGED dvars
BusInboxDelivery ==
  \E data \in InboxData :
    /\ handle_message(data)
    /\ UNCHANGED <<active, rekeyed, net_ret>> /\ evars_unchanged /\ UNCHANGED dvars

BusNext ==
  \/ BusConnect
  \/ BusDisconnect
  \/ BusSend
  \/ BusBroadcastDelivery
  \/ BusInboxDelivery

BusSpec == Init /\ [][BusNext]_vars

\* ----- the network node under arbitrary callers and transport -------------
\* The clock stands still here: expiry is the engine's and is covered by Spec.
NetJoin ==
  \E outcome \in ConnectOutcomes, after \in {"open", "closed"} :
    /\ join_network(outcome, after)
    /\ UNCHANGED rekeyed /\ evars_unchanged /\ UNCHANGED dvars
NetLeave ==
  leave_network /\ UNCHANGED rekeyed /\ evars_unchanged /\ UNCHANGED dvars
NetCreateProposal ==
  \E iv \in IVs, transport_ok \in BOOLEAN :
    /\ Len(proposals) < MaxNetProposals
    /\ net_create_proposal([n \in Nodes |-> iv], [n \in Nodes |-> transport_ok])
    /\ UNCHANGED rekeyed /\ UNCHANGED dvars
NetVote ==
  \E id \in 1..MaxNetProposals, vote \in VoteStrings, iv \in IVs, transport_ok \in BOOLEAN :
    /\ vote_on_proposal(id, vote, [n \in Nodes |-> iv], [n \in Nodes |-> transport_ok])
    /\ UNCHANGED rekeyed /\ UNCHANGED dvars

\* the peers announce themselves, each with the key it holds
NetKeyOf(id) == IF id = "chatgpt" THEN 1 ELSE 2
NetAnnouncements ==
  {json_dumps(Announcement(id, decode_utf8(get_public_key_bytes(NetKeyOf(id))))) :
     id \in Nodes}
NetAnnouncementDelivery ==
  \E data \in NetAnnouncements :
    /\ handle_broadcast(data)
    /\ rekeyed' = rekeyed \cup Rekeys(data)
    /\ UNCHANGED <<active, net_ret>> /\ evars_unchanged /\ UNCHANGED dvars

\* the peers announce their votes: what vote_on_proposal of a peer sends
NetVoteEnvelopes ==
  {json_dumps(encrypt_message(
      json_dumps(FullMessage(id, LocalId,
                   Payload("proposal_vote", TRUE, pid, id, "resonant"))),
      derive_shared_key(NetKeyOf(id), get_public_key_bytes(LocalPriv)), iv)) :
     id \in Nodes, pid \in 1..MaxNetProposals, iv \in IVs}

\* an inbox delivery to the node: _handle_network_message, the handler the
\* node registered, prints the vote and touches nothing else
NetVoteDelivery ==
  \E data \in NetVoteEnvelopes :
    /\ handle_message(data)
    /\ UNCHANGED <<active, rekeyed, net_ret>> /\ evars_unchanged /\ UNCHANGED dvars

NetNext ==
  \/ NetJoin
  \/ NetLeave
  \/ NetCreateProposal
  \/ NetVote
  \/ NetAnnouncementDelivery
  \/ NetVoteDelivery

NetSpec == Init /\ [][NetNext]_vars

\* ----- the test driver ----------------------------------------------------
\* test_consciousness.py, test 3 (and the demo at the end of proposal.py):
\* one proposal, a vote from each of three nodes, then a status query.  The
\* echo kinds are inputs; the clock may advance between the calls.
DriverVoters == <<"chatgpt", "gemini", "human">>

DriverCreate ==
  /\ pc = "start"
  /\ create_proposal
  /\ driver_pid' = ret'.value.id
  /\ pc' = "vote"
  /\ UNCHANGED <<driver_log, test2>>
  /\ UNCHANGED bvars

DriverVote ==
  /\ pc = "vote"
  /\ \E k \in EchoType :
       /\ submit_echo(driver_pid, DriverVoters[Len(driver_log) + 1], k)
       /\ driver_log' = Append(driver_log,
            [node_id |-> DriverVoters[Len(driver_log) + 1],
             echo_type |-> k,
             expired |-> is_expired(proposals[driver_pid], now),
             returned |-> ret'.value])
  /\ pc' = IF Len(driver_log') = Len(DriverVoters) THEN "status" ELSE "vote"
  /\ UNCHANGED <<driver_pid, test2>>
  /\ UNCHANGED bvars

DriverStatus ==
  /\ pc = "status"
  /\ get_proposal_status(driver_pid)
  /\ pc' = "done"
  /\ UNCHANGED <<driver_pid, driver_log, test2>>
  /\ UNCHANGED bvars

DriverNext ==
  \/ DriverCreate
  \/ DriverVote
  \/ DriverStatus
  \/ TimePasses

DriverSpec == Init /\ [][DriverNext]_vars

\* ----- the encryption test ------------------------------------------------
\* test_consciousness.py, test 2 (and the demo at the end of encryption.py):
\* two identities exchange public keys, a encrypts and b decrypts.  The
\* identities, the message and the iv are inputs.
AllPrivs == {LocalPriv} \cup PeerPrivs \cup {StrangerPriv}

Test2Keys ==
  /\ test2.stage = "start"
  /\ \E a \in AllPrivs, b \in AllPrivs, message \in Plaintexts :
       test2' = [stage |-> "derived", a |-> a, b |-> b, message |-> message,
                 shared_key_a |-> derive_shared_key(a, get_public_key_bytes(b)),
                 shared_key_b |-> derive_shared_key(b, get_public_key_bytes(a))]
  /\ UNCHANGED <<pc, driver_pid, driver_log>>
  /\ UNCHANGED evars /\ UNCHANGED bvars

Test2Encrypt ==
  /\ test2.stage = "derived"
  /\ \E iv \in IVs :
       test2' = [stage |-> "encrypted", a |-> test2.a, b |-> test2.b,
                 message |-> test2.message,
                 shared_key_a |-> test2.shared_key_a,
                 shared_key_b |-> test2.shared_key_b,
                 encrypted |-> encrypt_message(test2.message, test2.shared_key_a, iv)]
  /\ UNCHANGED <<pc, driver_pid, driver_log>>
  /\ UNCHANGED evars /\ UNCHANGED bvars

Test2Decrypt ==
  /\ test2.stage = "encrypted"
  /\ test2' = [stage |-> "done", a |-> test2.a, b |-> test2.b,
               message |-> test2.message,
               shared_key_a |-> test2.shared_key_a,
               shared_key_b |-> test2.shared_key_b,
               encrypted |-> test2.encrypted,
               raised |-> decrypt_raises(test2.encrypted, test2.shared_key_b),
               decrypted |->
                 IF decrypt_raises(test2.encrypted, test2.shared_key_b) THEN <<>>
                 ELSE decrypt_message(test2.encrypted, test2.shared_key_b)]
  /\ UNCHANGED <<pc, driver_pid, driver_log>>
  /\ UNCHANGED evars /\ UNCHANGED bvars

Test2Next ==
  \/ Test2Keys
  \/ Test2Encrypt
  \/ Test2Decrypt

Test2Spec == Init /\ [][Test2Next]_vars

\* ----- properties ---------------------------------------------------------
Created(id) == id \in 1..Len(proposals)
InHistory(id) == id \in Range(proposal_history)
VoteCount(id) == Cardinality(DOMAIN proposals[id].echoes)
StrengthOf(id) == calculate_resonance(proposals[id].echoes).consensus_strength

\* the driver has made its three calls, none of them after expiry, with the
\* given kinds
DriverRan(kinds) ==
  /\ Len(driver_log) = 3
  /\ \A i \in 1..3 : /\ driver_log[i].echo_type = kinds[i]
                     /\ ~driver_log[i].expired
  /\ \A i, j \in 1..3 : i # j => driver_log[i].node_id # driver_log[j].node_id

\* C1 (Scenario B): after resonant, resonant, dissonant from three distinct
\* nodes on a fresh unexpired proposal, it holds three votes, its consensus
\* strength is 200/3, it is still Active and still in the active set.
ScenarioB_StaysActive ==
  DriverRan(<<"resonant", "resonant", "dissonant">>) =>
    /\ VoteCount(driver_pid) = 3
    /\ 3 * StrengthOf(driver_pid)[1] = 200 * StrengthOf(driver_pid)[2]
    /\ proposals[driver_pid].status = "active"
    /\ IsActiveId(driver_pid)

\* C2 (Scenario A): after resonant votes were submitted by three distinct
\* nodes before expiry, the consensus strength is 100, the status is
\* Converged and the proposal is not in the active set.
ScenarioA_Converged ==
  DriverRan(<<"resonant", "resonant", "resonant">>) =>
    /\ StrengthOf(driver_pid)[1] = 100 * StrengthOf(driver_pid)[2]
    /\ proposals[driver_pid].status = "converged"
    /\ ~IsActiveId(driver_pid)

ScenarioA_Reached ==
  /\ DriverRan(<<"resonant", "resonant", "resonant">>)
  /\ proposals[driver_pid].status = "converged"
  /\ pc \in {"status", "done"}

\* C3: get_proposal_status(id) returns a view for every created proposal,
\* converged ones included, and None only for ids never created.
StatusViewForEveryCreated ==
  [][ret'.op = "get_proposal_status" =>
       \A id \in PIDs :
         (get_proposal_status(id) /\ UNCHANGED dvars) =>
           ((ret'.value = <<>>) <=> ~Created(id))]_vars

\* the largest per-kind count of a vote map is at least 80% of its size
LargestShareReached(echoes) ==
  \E k \in EchoType :
    5 * Cardinality({n \in DOMAIN echoes : echoes[n] = k}) >=
      4 * Cardinality(DOMAIN echoes)

\* C4: a submit_echo that records a vote converges the proposal and moves it
\* from the active set to history in that operation exactly when the largest
\* per-kind count is at least 80% of the recorded votes; otherwise the
\* proposal stays Active in the active set.
ConvergesIffLargestShare ==
  [][(ret'.op = "submit_echo" /\ ret'.value = TRUE) =>
       \A id \in PIDs, n \in Nodes, k \in EchoType :
         (submit_echo(id, n, k) /\ UNCHANGED dvars) =>
           /\ IsActiveId(id)
           /\ n \in DOMAIN proposals'[id].echoes
           /\ proposals'[id].echoes[n] = k
           /\ IF LargestShareReached(proposals'[id].echoes)
              THEN /\ proposals'[id].status = "converged"
                   /\ id \notin Range(active_proposals')
                   /\ id \in Range(proposal_history')
              ELSE /\ proposals'[id].status = "active"
                   /\ id \in Range(active_proposals')
                   /\ id \notin Range(proposal_history')]_vars

ConvergedByVote ==
  /\ ret.op = "submit_echo"
  /\ ret.value = TRUE
  /\ \E id \in 1..Len(proposals) :
       /\ proposals[id].status = "converged"
       /\ InHistory(id)
       /\ \E n \in DOMAIN proposals[id].echoes :
            proposals[id].echoes[n] = "abstain"

\* C5 (Scenario C): a submit_echo on a registered proposal made after its
\* expires_at returns failure, sets the status to Expired and leaves the vote
\* map as it was.
ExpiredVoteRejected ==
  [][ret'.op = "submit_echo" =>
       \A id \in PIDs, n \in Nodes, k \in EchoType :
         (/\ IsActiveId(id)
          /\ now > proposals[id].expires_at
          /\ submit_echo(id, n, k)
          /\ UNCHANGED dvars) =>
           /\ ret'.value = FALSE
           /\ proposals'[id].status = "expired"
           /\ proposals'[id].echoes = proposals[id].echoes]_vars

ExpiredVoteSeen ==
  /\ ret.op = "submit_echo"
  /\ ret.value = FALSE
  /\ \E id \in 1..Len(proposals) :
       /\ proposals[id].status = "expired"
       /\ now > proposals[id].expires_at
       /\ VoteCount(id) = 0

\* C6: the active set holds only proposals whose status is Active; a proposal
\* that is Converged, Expired or Failed is out of the active set and in
\* history.
ActiveSetOnlyActive ==
  \A id \in 1..Len(proposals) :
    /\ IsActiveId(id) => proposals[id].status = "active"
    /\ proposals[id].status \in {"converged", "expired", "failed"} =>
         (~IsActiveId(id) /\ InHistory(id))

\* C7: the status only moves from Active to Converged or to Expired, Draft
\* is never the status of a registered or returned proposal, and a proposal
\* that is Converged, Expired or Failed keeps its status and its votes.
StatusMonotonic ==
  [][/\ Len(proposals') >= Len(proposals)
     /\ \A id \in 1..Len(proposals) :
          /\ proposals'[id].status # proposals[id].status =>
               /\ proposals[id].status = "active"
               /\ proposals'[id].status \in {"converged", "expired"}
          /\ proposals[id].status \in {"converged", "expired", "failed"} =>
               /\ proposals'[id].status = proposals[id].status
               /\ proposals'[id].echoes = proposals[id].echoes
     /\ \A id \in 1..Len(proposals') : proposals'[id].status # "draft"
     /\ ret'.op = "create_proposal" => ret'.value.status # "draft"]_vars

TerminalProposalsCalledAgain ==
  /\ ret.op = "submit_echo"
  /\ ret.value = FALSE
  /\ \E id, jd \in 1..Len(proposals) :
       /\ proposals[id].status = "converged"
       /\ proposals[jd].status = "expired"

\* C8: a proposal whose expires_at passes while it is Active eventually has
\* status Expired and is out of the active set, without any vote for it.
IdleProposalsExpire ==
  \A id \in PIDs :
    (Created(id) /\ proposals[id].status = "active" /\ now > proposals[id].expires_at)
      ~> (Created(id) /\ proposals[id].status = "expired" /\ ~IsActiveId(id))

\* the ids of a returned listing
ReturnedIds(listing) == {listing[i].proposal.id : i \in 1..Len(listing)}

\* C9: list_active_proposals returns no proposal whose expires_at has passed
\* and every proposal of the active set whose expires_at has not passed.
ListingIsUnexpiredActiveSet ==
  [][(ret'.op = "list_active_proposals" /\ list_active_proposals /\ UNCHANGED dvars) =>
       ReturnedIds(ret'.value) =
         {id \in Range(active_proposals) : ~(now > proposals[id].expires_at)}]_vars

ListingFilteredOne ==
  /\ ret.op = "list_active_proposals"
  /\ Len(ret.value) = 1
  /\ \E id \in Range(active_proposals) :
       /\ now > proposals[id].expires_at
       /\ id \notin ReturnedIds(ret.value)
  /\ \E id \in Range(active_proposals) :
       /\ ~(now > proposals[id].expires_at)
       /\ id \in ReturnedIds(ret.value)

\* C10: after list_active_proposals, every proposal of the active set whose
\* expires_at had passed has status Expired.
ListingExpiresStale ==
  [][(ret'.op = "list_active_proposals" /\ list_active_proposals /\ UNCHANGED dvars) =>
       \A id \in Range(active_proposals) :
         now > proposals[id].expires_at => proposals'[id].status = "expired"]_vars

\* C11: when a node that has already voted on a proposal votes on it again
\* before expiry, its recorded response is the later submission, it has one
\* recorded response, and the total vote count is what it was.
RevoteReplacesVote ==
  [][ret'.op = "submit_echo" =>
       \A id \in PIDs, n \in Nodes, k \in EchoType :
         (/\ Created(id)
          /\ n \in DOMAIN proposals[id].echoes
          /\ ~(now > proposals[id].expires_at)
          /\ submit_echo(id, n, k)
          /\ UNCHANGED dvars) =>
           /\ proposals'[id].echoes[n] = k
           /\ VoteCount(id)' = VoteCount(id)]_vars

\* C12: a submit_echo that returns failure changes no vote of any proposal,
\* and when the id is not in the active set it changes nothing of the store.
FailedVoteChangesNoVote ==
  [][(ret'.op = "submit_echo" /\ ret'.value = FALSE) =>
       /\ Len(proposals') = Len(proposals)
       /\ \A j \in 1..Len(proposals) :
            proposals'[j].echoes = proposals[j].echoes
       /\ \/ /\ proposals' = proposals
             /\ active_proposals' = active_proposals
             /\ proposal_history' = proposal_history
          \/ \A id \in PIDs :
               ~IsActiveId(id) =>
                 \A n \in Nodes, k \in EchoType :
                   ~(submit_echo(id, n, k) /\ UNCHANGED dvars)]_vars

NotFoundVoteSeen ==
  /\ ret.op = "submit_echo"
  /\ ret.value = FALSE
  /\ Len(proposals) >= 1
  /\ \A id \in 1..Len(proposals) :
       /\ proposals[id].status = "converged"
       /\ InHistory(id)
       /\ VoteCount(id) = 1

\* ----- properties of the bus ----------------------------------------------
SendInputs == (Nodes \cup {LocalId}) \X Payloads \X IVs \X BOOLEAN
SendStep(a) == send_secure_message(a[1], a[2], a[3], a[4])

\* C14 (Scenario D): a send to a peer that has no entry in the peer directory
\* returns failure and publishes nothing.
UnknownPeerSendFails ==
  [][ret'.op = "send_secure_message" =>
       \A a \in SendInputs :
         (a[1] \notin DictKeys(peer_keys) /\ SendStep(a)) =>
           /\ ret'.value = FALSE
           /\ published' = <<>>]_vars

UnknownPeerSendSeen ==
  /\ ret.op = "send_secure_message"
  /\ ret.value = FALSE
  /\ bus_log = <<"no_public_key">>
  /\ connected
  /\ peer_keys # <<>>

\* the envelope a successful send has published
SentEnvelope(pub) == json_loads(decode_utf8(pub[1].data))
\* the holder of private key k opens an envelope sent to it by the local node
OpensAsPeer(k, env) ==
  ~decrypt_raises(env, derive_shared_key(k, get_public_key_bytes(LocalPriv)))

\* C15 (Scenario E): an announcement for an id that is already registered
\* replaces the stored key and leaves one entry for that id, and a successful
\* send encrypts for the holder of the key stored at that moment and for
\* nobody else.
LastAnnouncedKeyWins ==
  [][/\ ret'.op = "_handle_broadcast" =>
          \A id \in Nodes, key \in AnnouncedKeys :
            (/\ id \in DictKeys(peer_keys)
             /\ handle_broadcast(json_dumps(Announcement(id, key)))) =>
               /\ DictGet(peer_keys', id) = encode_utf8(key)
               /\ Cardinality({i \in 1..Len(peer_keys') : peer_keys'[i][1] = id}) = 1
               /\ Len(peer_keys') = Len(peer_keys)
     /\ (ret'.op = "send_secure_message" /\ ret'.value = TRUE) =>
          \A a \in SendInputs :
            SendStep(a) =>
              /\ published'[1].topic = InboxTopic(a[1])
              /\ \A k \in PeerPrivs \cup {StrangerPriv} :
                   OpensAsPeer(k, SentEnvelope(published')) <=>
                     get_public_key_bytes(k) = DictGet(peer_keys, a[1])]_vars

ScenarioE_SendSeen ==
  /\ ret.op = "send_secure_message"
  /\ ret.value = TRUE
  /\ \E id \in rekeyed : published[1].topic = InboxTopic(id)

\* C16: the peer directory changes only when a consciousness_announcement
\* with a public key from an id other than the local one is delivered on the
\* broadcast topic, and it never holds an entry for the local id.
DirectoryChangesOnlyOnPeerAnnouncement ==
  [][/\ peer_keys' # peer_keys =>
          /\ ret'.op = "_handle_broadcast"
          /\ \E id \in Nodes, key \in AnnouncedKeys :
               /\ id # LocalId
               /\ handle_broadcast(json_dumps(Announcement(id, key)))
               /\ DictGet(peer_keys', id) = encode_utf8(key)
     /\ LocalId \notin DictKeys(peer_keys')]_vars

DirectoryEntryRegistered ==
  /\ ret.op = "_handle_broadcast"
  /\ bus_log = <<"registered">>
  /\ peer_keys # <<>>

\* an intact envelope made for the local node by the holder of the private
\* key of some directory entry
Authentic(env) ==
  LET ct == b64decode(env.ciphertext) IN
  /\ \E i \in 1..Len(peer_keys) :
       /\ ~load_pem_raises(peer_keys[i][2])
       /\ ct.key = derive_shared_key(peer_keys[i][2][2].pem,
                                     get_public_key_bytes(LocalPriv))
  /\ env = encrypt_message(decode_utf8(ct.enc), ct.key, ct.iv)

\* C17: the inbox handler gives a message to the registered handler only when
\* the envelope is authentic under the session key of some directory entry,
\* and then it is the plaintext of that envelope; any other envelope is
\* dropped.
HandlerOnlyAfterAuthentication ==
  [][(ret'.op = "_handle_message" /\ handler_calls' # <<>>) =>
       \A data \in InboxData :
         handle_message(data) =>
           /\ ~json_loads_raises(data)
           /\ Authentic(json_loads(data))
           /\ \A i \in 1..Len(handler_calls') :
                json_dumps(handler_calls'[i]) =
                  decode_utf8(b64decode(json_loads(data).ciphertext).enc)]_vars

AuthenticatedDispatchSeen ==
  /\ ret.op = "_handle_message"
  /\ Len(handler_calls) = 1
  /\ Len(peer_keys) = 2

\* C18: when no directory entry authenticates an envelope, the failure is
\* reported: the delivery leaves an error behind that the silence of an
\* ignored message does not.
AuthFailureReported ==
  [][ret'.op = "_handle_message" =>
       \A data \in InboxData :
         (/\ handle_message(data)
          /\ ~json_loads_raises(data)
          /\ "ciphertext" \in json_loads(data).keys
          /\ ~Authentic(json_loads(data))) =>
            bus_log' # <<>>]_vars

\* C19: a send made right after disconnect() returns failure and publishes
\* nothing.
SendsFailAfterDisconnect ==
  [][(ret.op = "disconnect" /\ ret'.op = "send_secure_message") =>
       /\ ret'.value = FALSE
       /\ published' = <<>>]_vars

\* ----- properties of the network node --------------------------------------
VoteInputs == (1..MaxNetProposals) \X VoteStrings \X IVs \X BOOLEAN
VoteStep(a) ==
  vote_on_proposal(a[1], a[2], [n \in Nodes |-> a[3]], [n \in Nodes |-> a[4]])

\* C13 as stated: a vote whose string is not one of resonant, dissonant,
\* inquiry, abstain returns failure, the engine is not called, the proposal
\* store is unchanged and nothing is published.
InvalidVoteStringRejected ==
  [][net_ret'.op = "vote_on_proposal" =>
       \A a \in VoteInputs :
         (a[2] \notin EchoType /\ VoteStep(a)) =>
           /\ net_ret'.value = FALSE
           /\ UNCHANGED <<proposals, active_proposals, proposal_history, ret>>
           /\ published' = <<>>]_vars

\* C13, amended: a vote whose string in lower case is not one of resonant,
\* dissonant, inquiry, abstain returns failure, the engine is not called, the
\* proposal store is unchanged and nothing is published.
UnknownVoteKindRejected ==
  [][net_ret'.op = "vote_on_proposal" =>
       \A a \in VoteInputs :
         (lower(a[2]) \notin EchoType /\ VoteStep(a)) =>
           /\ net_ret'.value = FALSE
           /\ UNCHANGED <<proposals, active_proposals, proposal_history, ret>>
           /\ published' = <<>>]_vars

InvalidVoteSeen ==
  /\ net_ret.op = "vote_on_proposal"
  /\ net_ret.value = FALSE
  /\ bus_log = <<"invalid_vote_type">>
  /\ active_proposals # <<>>
  /\ peer_keys # <<>>
  /\ connected

\* C20: when a transport call of connect fails, join_network reports failure
\* and the node is neither connected nor active afterwards.
ConnectFailureSurfaced ==
  [][ret'.op = "connect" =>
       \A outcome \in ConnectOutcomes \ {"ok"}, after \in {"open", "closed"} :
         join_network(outcome, after) =>
           /\ net_ret'.value = FALSE
           /\ ~active'
           /\ ~connected']_vars

\* ----- properties of the engine, continued ---------------------------------
\* C24: no proposal ever holds more than one recorded vote: a proposal of the
\* active set has an empty vote map and a proposal of the history has exactly
\* one vote.
AtMostOneVote ==
  \A id \in 1..Len(proposals) :
    /\ VoteCount(id) <= 1
    /\ IsActiveId(id) => VoteCount(id) = 0
    /\ InHistory(id) => VoteCount(id) = 1

SecondVoteRefused ==
  /\ ret.op = "submit_echo"
  /\ ret.value = FALSE
  /\ \E id \in 1..Len(proposals) : InHistory(id) /\ VoteCount(id) = 1
  /\ \E id \in 1..Len(proposals) : IsActiveId(id) /\ VoteCount(id) = 0

EnvelopeStep(data) ==
  /\ handle_message(data)
  /\ ~json_loads_raises(data)
  /\ "ciphertext" \in json_loads(data).keys

\* C22: for each envelope delivered on the inbox the receiver attempts at
\* most one decryption, with the key of one directory entry.
OneDecryptionAttempt ==
  [][ret'.op = "_handle_message" =>
       \A data \in InboxData :
         EnvelopeStep(data) =>
           Len(decrypt_attempts(peer_keys, json_loads(data))) <= 1]_vars

\* C25: for every message given to the handler, its 'from' is the node id of
\* a directory entry whose session key authenticates the envelope.
FromIsAuthenticatedPeer ==
  [][(ret'.op = "_handle_message" /\ handler_calls' # <<>>) =>
       \A data \in InboxData :
         EnvelopeStep(data) =>
           \A i \in 1..Len(handler_calls') :
             \E j \in 1..Len(peer_keys) :
               /\ peer_keys[j][1] = handler_calls'[i].from
               /\ ~load_pem_raises(peer_keys[j][2])
               /\ ~decrypt_raises(json_loads(data),
                     derive_shared_key(LocalPriv, peer_keys[j][2]))]_vars

\* C26: an envelope delivered on the inbox topic causes at most one
\* invocation of the registered handler.
AtMostOneHandlerCall ==
  [][ret'.op = "_handle_message" => Len(handler_calls') <= 1]_vars

\* C27: whenever connected is false there is no open transport connection and
\* no live subscription to the inbox or the broadcast topic.
NotConnectedMeansClosed ==
  ~connected =>
    /\ \A c \in 1..Len(conns) : conns[c].state # "open"
    /\ ~Subscribed(InboxTopic(LocalId))
    /\ ~Subscribed(BroadcastTopic)

\* ----- properties of the network node, continued ---------------------------
\* C23: when a proposal_vote announcement of a peer is decrypted and given to
\* the handler and the proposal it names is in the active set, the proposal
\* store holds the peer's vote for that proposal afterwards.
VoteAnnouncementRecorded ==
  [][ret'.op = "_handle_message" =>
       \A i \in 1..Len(handler_calls') :
         (/\ handler_calls'[i].payload.type = "proposal_vote"
          /\ IsActiveId(handler_calls'[i].payload.proposal_id)) =>
            handler_calls'[i].payload.voter \in
              DOMAIN proposals'[handler_calls'[i].payload.proposal_id].echoes]_vars

====
